---- MODULE Spec2Model ----
(***************************************************************************)
(* Model of examples/cbor2cjson.c: the recursive converter cbor_to_cjson   *)
(* (CBOR item tree -> cJSON value tree) and the driver main.               *)
(*                                                                         *)
(* Characters are one-character strings, NUL is the empty string.  A C     *)
(* buffer of n bytes is a function on 0..n-1, so that indices are the      *)
(* source's indices.  A uint64_t is four 16-bit limbs, least significant   *)
(* first, so that 64-bit arithmetic keeps its width.                       *)
(***************************************************************************)
EXTENDS Integers, Sequences, FiniteSets, TLC

VARIABLES pc, argc, file_ok, offset, length, load_error, item, stack, ret,
          cjson_item, writes, exit_status, calls

vars == <<pc, argc, file_ok, offset, length, load_error, item, stack, ret,
          cjson_item, writes, exit_status, calls>>

-----------------------------------------------------------------------------
(* Bounds of the explored inputs.                                          *)

MaxBytes == 2
MaxArray == 2
MaxPairs == 2

-----------------------------------------------------------------------------
(* Characters, C strings and buffers.                                      *)

NUL == ""

Min(a, b) == IF a < b THEN a ELSE b

Rep(c, n) == [k \in 1..n |-> c]

\* F applied to the value of e: e is evaluated once, however often F uses
\* its argument.
With(e, F(_)) == CHOOSE r \in {F(v) : v \in {e}} : TRUE

\* char buf[n] = {0} and calloc(n, 1): n bytes, all zero.
calloc(n) == [k \in 0..(n - 1) |-> NUL]

\* strlen(buf): the index of the first NUL (the size of the buffer when it
\* holds none).
strlen(buf) ==
  With(buf, LAMBDA b :
    IF \E k \in DOMAIN b : b[k] = NUL
    THEN CHOOSE k \in DOMAIN b :
           b[k] = NUL /\ \A j \in 0..(k - 1) : b[j] # NUL
    ELSE Cardinality(DOMAIN b))

\* The C string a buffer holds: the bytes before the first NUL.
CStr(buf) ==
  With(buf, LAMBDA b :
    With(strlen(b), LAMBDA n : [k \in 1..n |-> b[k - 1]]))

\* snprintf(&buf[off], n, "...") where the formatted text is s: at most n-1
\* characters of s are stored, then a NUL; nothing is stored when n = 0.
snprintf_count(n, s) == IF n = 0 THEN 0 ELSE Min(Len(s), n - 1)

snprintf_writes(off, n, s) ==
  IF n = 0 THEN {} ELSE off..(off + snprintf_count(n, s))

snprintf(buf, off, n, s) ==
  With(buf, LAMBDA b : With(s, LAMBDA t :
    [k \in DOMAIN b |->
       IF k \in snprintf_writes(off, n, t)
       THEN IF k < off + snprintf_count(n, t) THEN t[k - off + 1] ELSE NUL
       ELSE b[k]]))

\* memcpy(buf, src, n): bytes 0..n-1 of buf become the first n bytes of src.
memcpy(buf, src, n) ==
  With(buf, LAMBDA b : With(src, LAMBDA t :
    [k \in DOMAIN b |-> IF k < n THEN t[k + 1] ELSE b[k]]))

\* One record per byte stored into a buffer of `size` bytes.
Stores(size, idxs) == {[size |-> size, index |-> k] : k \in idxs}

-----------------------------------------------------------------------------
(* uint64_t as four 16-bit limbs, least significant first.                 *)

Limb == 65536

U64Zero == <<0, 0, 0, 0>>

\* a - b in uint64_t arithmetic: the difference modulo 2^64.
U64Sub(a, b) ==
  LET d1 == a[1] - b[1]
      c1 == IF d1 < 0 THEN 1 ELSE 0
      d2 == a[2] - b[2] - c1
      c2 == IF d2 < 0 THEN 1 ELSE 0
      d3 == a[3] - b[3] - c2
      c3 == IF d3 < 0 THEN 1 ELSE 0
      d4 == a[4] - b[4] - c3
  IN  <<d1 % Limb, d2 % Limb, d3 % Limb, d4 % Limb>>

\* Conversion of an int to uint64_t (value modulo 2^64), for |n| < 2^31.
U64FromInt(n) ==
  IF n >= 0 THEN <<n % Limb, n \div Limb, 0, 0>>
  ELSE U64Sub(U64Zero, <<(-n) % Limb, (-n) \div Limb, 0, 0>>)

\* Quotient and remainder of a uint64_t by ten.
U64DivMod10(u) ==
  LET s4 == u[4]
      s3 == (s4 % 10) * Limb + u[3]
      s2 == (s3 % 10) * Limb + u[2]
      s1 == (s2 % 10) * Limb + u[1]
  IN  [q |-> <<s1 \div 10, s2 \div 10, s3 \div 10, s4 \div 10>>,
       r |-> s1 % 10]

DecDigit == <<"0", "1", "2", "3", "4", "5", "6", "7", "8", "9">>

RECURSIVE U64Digits(_)
U64Digits(u) ==
  IF u = U64Zero THEN <<>>
  ELSE With(U64DivMod10(u), LAMBDA d :
         Append(U64Digits(d.q), DecDigit[d.r + 1]))

\* The text "%llu" produces for a uint64_t.
fmt_llu(u) == IF u = U64Zero THEN <<"0">> ELSE U64Digits(u)

\* The text "%zu" produces for a (small) size_t.
fmt_zu(n) == fmt_llu(U64FromInt(n))

HexDigit == <<"0", "1", "2", "3", "4", "5", "6", "7",
              "8", "9", "A", "B", "C", "D", "E", "F">>

\* The text "%02X" produces for an unsigned holding one byte.
fmt_02X(b) == <<HexDigit[(b \div 16) + 1], HexDigit[(b % 16) + 1]>>

-----------------------------------------------------------------------------
(* double: class, sign, integral magnitude (five limbs, up to 2^64) and    *)
(* the fraction in tenths.                                                 *)

RECURSIVE Pow2(_)
Pow2(n) == IF n = 0 THEN 1 ELSE 2 * Pow2(n - 1)

\* Number of significant bits of a limb.
BitLen(x) == CHOOSE b \in 0..16 : x < Pow2(b) /\ (b = 0 \/ x >= Pow2(b - 1))

\* a + k for a five-limb magnitude and 0 <= k <= 2^16.
Mag5Add(a, k) ==
  LET t1 == a[1] + k
      t2 == a[2] + (t1 \div Limb)
      t3 == a[3] + (t2 \div Limb)
      t4 == a[4] + (t3 \div Limb)
      t5 == a[5] + (t4 \div Limb)
  IN  <<t1 % Limb, t2 % Limb, t3 % Limb, t4 % Limb, t5>>

\* The magnitude of (double)u for a uint64_t u: exact below 2^53, otherwise
\* rounded to 53 significant bits, ties to even.
U64RoundToDouble(u) ==
  IF u[4] < 32 THEN <<u[1], u[2], u[3], u[4], 0>>
  ELSE LET s    == BitLen(u[4]) - 5
           unit == Pow2(s)
           low  == u[1] % unit
           kept == <<u[1] - low, u[2], u[3], u[4], 0>>
           up   == \/ 2 * low > unit
                   \/ 2 * low = unit /\ (u[1] \div unit) % 2 = 1
       IN  IF up THEN Mag5Add(kept, unit) ELSE kept

\* Implicit conversion uint64_t -> double at a call of cJSON_CreateNumber.
DoubleOfU64(u) ==
  [cls |-> "finite", neg |-> FALSE, int |-> U64RoundToDouble(u), tenths |-> 0]

-----------------------------------------------------------------------------
(* CBOR items (cbor.h), as the decoder hands them to the converter.        *)

Uint(u) == [type |-> "UINT", value |-> u]
Negint(u) == [type |-> "NEGINT", value |-> u]
Bytes(d) == [type |-> "BYTESTRING", definite |-> TRUE, data |-> d]
BytesChunked == [type |-> "BYTESTRING", definite |-> FALSE,
                 chunks |-> <<Bytes(<<222>>), Bytes(<<173>>)>>]
Text(d) == [type |-> "STRING", definite |-> TRUE, data |-> d]
TextChunked == [type |-> "STRING", definite |-> FALSE,
                 chunks |-> <<Text(<<"h">>), Text(<<"i">>)>>]
Array(d) == [type |-> "ARRAY", data |-> d]
Map(d) == [type |-> "MAP", data |-> d]
Pair(k, v) == [key |-> k, value |-> v]
Tag(t, c) == [type |-> "TAG", tag |-> t, item |-> c]
Ctrl(v) == [type |-> "FLOAT_CTRL", ctrl |-> TRUE, simple |-> v]
Float(d) == [type |-> "FLOAT_CTRL", ctrl |-> FALSE, float |-> d]

cbor_typeof(it) == it.type
cbor_get_int(it) == it.value
cbor_isa_uint(it) == it.type = "UINT"
cbor_isa_string(it) == it.type = "STRING"
cbor_bytestring_is_definite(it) == it.definite
cbor_bytestring_handle(it) == it.data
cbor_bytestring_length(it) == Len(it.data)
cbor_string_is_definite(it) == it.definite
cbor_string_handle(it) == it.data
cbor_string_length(it) == Len(it.data)
cbor_array_size(it) == Len(it.data)
cbor_array_get(it, i) == it.data[i + 1]
cbor_map_size(it) == Len(it.data)
cbor_map_handle(it) ==
  [i \in 0..(Len(it.data) - 1) |-> it.data[i + 1]]
cbor_tag_value(it) == it.tag
cbor_tag_item(it) == it.item
cbor_float_ctrl_is_ctrl(it) == it.ctrl
cbor_is_bool(it) == it.ctrl /\ it.simple \in {20, 21}
cbor_get_bool(it) == it.simple = 21
cbor_is_null(it) == it.ctrl /\ it.simple = 22
cbor_float_get_float(it) == it.float

-----------------------------------------------------------------------------
(* cJSON values.  An array or object holds its children in insertion       *)
(* order; an object's child carries its own key in `string`.               *)

None == [type |-> "none"]

\* A string literal: its characters followed by the terminating NUL.
Lit(s) == [k \in 0..Len(s) |-> IF k < Len(s) THEN s[k + 1] ELSE NUL]

cJSON_CreateNumber(d) == [type |-> "Number", valuedouble |-> d]
cJSON_CreateString(p) == [type |-> "String", valuestring |-> CStr(p)]
cJSON_CreateBool(b) == [type |-> IF b THEN "True" ELSE "False"]
cJSON_CreateNull == [type |-> "NULL"]
cJSON_CreateArray == [type |-> "Array", child |-> <<>>]
cJSON_CreateObject == [type |-> "Object", child |-> <<>>]

cJSON_AddItemToArray(array, it) ==
  [array EXCEPT !.child = Append(@, it)]

\* Variant: an entry already under the key is dropped first.
cJSON_AddItemToObject_replacing(object, key, it) ==
  [object EXCEPT !.child =
     Append(SelectSeq(@, LAMBDA c : c.string # CStr(key)),
            [string |-> CStr(key), item |-> it])]

\* The key is copied as a C string and the item is appended to the
\* object's children; existing children are not searched for the key.
cJSON_AddItemToObject(object, key, it) ==
  [object EXCEPT !.child = Append(@, [string |-> CStr(key), item |-> it])]

ChunkedBytestringText ==
  <<"U", "n", "s", "u", "p", "p", "o", "r", "t", "e", "d", " ", "C", "B",
    "O", "R", " ", "i", "t", "e", "m", ":", " ", "C", "h", "u", "n", "k",
    "e", "d", " ", "B", "y", "t", "e", "s", "t", "r", "i", "n", "g">>
ChunkedStringText ==
  <<"U", "n", "s", "u", "p", "p", "o", "r", "t", "e", "d", " ", "C", "B",
    "O", "R", " ", "i", "t", "e", "m", ":", " ", "C", "h", "u", "n", "k",
    "e", "d", " ", "s", "t", "r", "i", "n", "g">>
ControlValueText ==
  <<"U", "n", "s", "u", "p", "p", "o", "r", "t", "e", "d", " ", "C", "B",
    "O", "R", " ", "i", "t", "e", "m", ":", " ", "C", "o", "n", "t", "r",
    "o", "l", " ", "v", "a", "l", "u", "e">>
SurrogateKeyText ==
  <<"S", "u", "r", "r", "o", "g", "a", "t", "e", " ", "k", "e", "y", " ">>
TagKeyText == <<"t", "a", "g", "_">>

KeySize == 128

-----------------------------------------------------------------------------
(* The items the decoder may return.                                       *)

U64Max == <<65535, 65535, 65535, 65535>>

\* 0, 5, 10, 2^32, 2^53 + 1 and 2^64 - 1.
U64Samples ==
  {U64Zero, U64FromInt(5), U64FromInt(10), <<0, 0, 1, 0>>, <<1, 0, 0, 32>>,
   U64Max}

ByteSamples == {0, 222, 255}

BytesUpTo(n) == UNION {[1..k -> ByteSamples] : k \in 0..n}

Key127 == Rep("a", 127)
Key128b == Rep("a", 127) \o <<"b">>
Key128c == Rep("a", 127) \o <<"c">>
Key130 == Rep("a", 127) \o <<"x", "y", "z">>

TextSamples ==
  {<<>>, <<"5">>, <<"k">>, <<"h", "i">>, <<"a", NUL, "b">>,
   Key127, Key128b, Key128c, Key130}

OnePointFive ==
  [cls |-> "finite", neg |-> FALSE, int |-> <<1, 0, 0, 0, 0>>, tenths |-> 5]
NaN ==
  [cls |-> "nan", neg |-> FALSE, int |-> <<0, 0, 0, 0, 0>>, tenths |-> 0]

True == Ctrl(21)
False == Ctrl(20)
Null == Ctrl(22)
Undef == Ctrl(23)

Scalars ==
  {Uint(u) : u \in U64Samples} \cup {Negint(u) : u \in U64Samples}
  \cup {Bytes(d) : d \in BytesUpTo(MaxBytes)} \cup {BytesChunked}
  \cup {Text(d) : d \in TextSamples} \cup {TextChunked}
  \cup {True, False, Null, Undef, Float(OnePointFive), Float(NaN)}

\* Children of arrays.
Elems ==
  {Uint(U64FromInt(5)), Text(<<"k">>), True, BytesChunked,
   Array(<<Uint(U64FromInt(5)), TextChunked>>), Tag(U64FromInt(7), Undef),
   Map(<<Pair(TextChunked, Bytes(<<0, 255>>))>>)}

\* Keys of maps: one of every kind of item.
Keys ==
  {Text(<<"5">>), Uint(U64FromInt(5)), Uint(U64Max), Text(<<"a", NUL, "b">>),
   Text(Key127), Text(Key128b), Text(Key128c), Text(Key130), TextChunked,
   Negint(U64FromInt(5)), Bytes(<<222>>), Array(<<>>),
   Map(<<>>), Tag(U64FromInt(7), True), Null, Float(OnePointFive)}

CollidingKeys ==
  {Text(<<"5">>), Uint(U64FromInt(5)), Text(Key128b), Text(Key128c)}

Pairs ==
  {Pair(k, True) : k \in Keys}
  \cup {Pair(k, TextChunked) : k \in CollidingKeys}
  \cup {Pair(Text(<<"k">>), Array(<<BytesChunked, Undef>>))}

\* The pairs that come before the last pair of a map.
EarlierPairs ==
  {Pair(Text(<<"5">>), True), Pair(Uint(U64FromInt(5)), True),
   Pair(Array(<<>>), True), Pair(Text(Key128b), TextChunked)}

SeqsUpTo(S, n) == UNION {[1..k -> S] : k \in 0..n}

Maps ==
  {Map(<<>>)}
  \cup {Map(Append(d, p)) : d \in SeqsUpTo(EarlierPairs, MaxPairs - 1),
                            p \in Pairs}

Tagged ==
  {Tag(t, c) : t \in {U64FromInt(7), U64Max},
               c \in {True, Undef, BytesChunked, Text(<<"h", "i">>),
                      Array(<<TextChunked>>), Tag(U64Zero, Null)}}

Items ==
  Scalars
  \cup {Array(d) : d \in SeqsUpTo(Elems, MaxArray)}
  \cup Maps
  \cup Tagged

\* The driver's inputs: file sizes and offsets given on the command line.
FileLengths == {0, 2}
Offsets == {0, 2, 3}

-----------------------------------------------------------------------------
(* cbor_to_cjson: one frame per active call, the innermost call last.      *)

Frame(it) ==
  [item |-> it, at |-> "entry", i |-> 0, result |-> None, buf |-> calloc(0)]

top == stack[Len(stack)]

Running == pc = "convert" /\ stack # <<>>

\* Change fields of the innermost frame.
SetTop(f) == [stack EXCEPT ![Len(stack)] = f]

\* return v: the frame is popped and v is handed to the caller.
Return(v) ==
  /\ stack' = SubSeq(stack, 1, Len(stack) - 1)
  /\ ret' = v

\* cbor_to_cjson(child): the caller waits at `at` for the child's value.
Call(at, f, child) ==
  /\ stack' = Append(SetTop([f EXCEPT !.at = at]), Frame(child))
  /\ ret' = None

MainVars == <<pc, argc, file_ok, offset, length, load_error, item,
              cjson_item, exit_status, calls>>

\* Variant: the unsupported items give no value.
cbor_to_cjson_direct_failing(it) ==
  CASE cbor_typeof(it) = "UINT" ->
         cJSON_CreateNumber(DoubleOfU64(cbor_get_int(it)))
    [] cbor_typeof(it) = "NEGINT" ->
         cJSON_CreateNumber(
           DoubleOfU64(U64Sub(U64FromInt(-1), cbor_get_int(it))))
    [] cbor_typeof(it) = "BYTESTRING" -> None
    [] cbor_typeof(it) = "STRING" -> None
    [] cbor_typeof(it) = "FLOAT_CTRL" ->
         IF cbor_float_ctrl_is_ctrl(it)
         THEN IF cbor_is_bool(it) THEN cJSON_CreateBool(cbor_get_bool(it))
              ELSE IF cbor_is_null(it) THEN cJSON_CreateNull
              ELSE None
         ELSE cJSON_CreateNumber(cbor_float_get_float(it))
    [] OTHER -> cJSON_CreateNull

\* The cases of the switch that return at once.
cbor_to_cjson_direct(it) ==
  CASE cbor_typeof(it) = "UINT" ->
         cJSON_CreateNumber(DoubleOfU64(cbor_get_int(it)))
    [] cbor_typeof(it) = "NEGINT" ->
         cJSON_CreateNumber(
           DoubleOfU64(U64Sub(U64FromInt(-1), cbor_get_int(it))))
    [] cbor_typeof(it) = "BYTESTRING" ->
         cJSON_CreateString(Lit(ChunkedBytestringText))
    [] cbor_typeof(it) = "STRING" ->
         cJSON_CreateString(Lit(ChunkedStringText))
    [] cbor_typeof(it) = "FLOAT_CTRL" ->
         IF cbor_float_ctrl_is_ctrl(it)
         THEN IF cbor_is_bool(it) THEN cJSON_CreateBool(cbor_get_bool(it))
              ELSE IF cbor_is_null(it) THEN cJSON_CreateNull
              ELSE cJSON_CreateString(Lit(ControlValueText))
         ELSE cJSON_CreateNumber(cbor_float_get_float(it))
    [] OTHER -> cJSON_CreateNull

IsDirect(it) ==
  \/ cbor_typeof(it) \in {"UINT", "NEGINT", "FLOAT_CTRL"}
  \/ cbor_typeof(it) = "BYTESTRING" /\ ~cbor_bytestring_is_definite(it)
  \/ cbor_typeof(it) = "STRING" /\ ~cbor_string_is_definite(it)

ConvertDirect ==
  /\ Running /\ top.at = "entry" /\ IsDirect(top.item)
  /\ Return(cbor_to_cjson_direct(top.item))
  /\ writes' = {}
  /\ UNCHANGED MainVars

\* Lines 27-31: the buffer of the hex text and its leading 'b'.
hex_total(size) == (size * 2) + 2

hex_start(it) ==
  [calloc(hex_total(cbor_bytestring_length(it))) EXCEPT ![0] = "b"]

\* Lines 33-36: the body of the loop over the bytes, for byte x.
hex_offset(x) == 2 * x + 1
hex_room(total, off) == total - off - 1

hex_step(buf, it, x) ==
  LET total == hex_total(cbor_bytestring_length(it))
      off   == hex_offset(x)
  IN  snprintf(buf, off, hex_room(total, off),
               fmt_02X(cbor_bytestring_handle(it)[x + 1]))

hex_step_writes(it, x) ==
  LET total == hex_total(cbor_bytestring_length(it))
      off   == hex_offset(x)
  IN  snprintf_writes(off, hex_room(total, off),
                      fmt_02X(cbor_bytestring_handle(it)[x + 1]))

BytestringAlloc ==
  /\ Running /\ top.at = "entry"
  /\ cbor_typeof(top.item) = "BYTESTRING"
  /\ cbor_bytestring_is_definite(top.item)
  /\ stack' = SetTop([top EXCEPT !.at = "hex_loop", !.i = 0,
                        !.buf = hex_start(top.item)])
  /\ writes' = Stores(hex_total(cbor_bytestring_length(top.item)), {0})
  /\ UNCHANGED <<ret, MainVars>>

\* Lines 32-37: one iteration of the loop over the bytes.
BytestringHex ==
  /\ Running /\ top.at = "hex_loop"
  /\ top.i < cbor_bytestring_length(top.item)
  /\ stack' = SetTop([top EXCEPT !.buf = hex_step(@, top.item, top.i),
                        !.i = @ + 1])
  /\ writes' = Stores(hex_total(cbor_bytestring_length(top.item)),
                      hex_step_writes(top.item, top.i))
  /\ UNCHANGED <<ret, MainVars>>

\* Lines 38-40.
BytestringReturn ==
  /\ Running /\ top.at = "hex_loop"
  /\ ~(top.i < cbor_bytestring_length(top.item))
  /\ Return(cJSON_CreateString(top.buf))
  /\ writes' = {}
  /\ UNCHANGED MainVars

\* malloc(n): n bytes of indeterminate content; every one of them is
\* stored to before it is read.
Indeterminate == "?"
malloc(n) == [k \in 0..(n - 1) |-> Indeterminate]

\* Lines 44-52: the copy of a definite text string.
string_size(it) == cbor_string_length(it) + 1

string_copy(it) ==
  LET n == cbor_string_length(it)
  IN  [memcpy(malloc(string_size(it)), cbor_string_handle(it), n)
         EXCEPT ![n] = NUL]

StringDefinite ==
  /\ Running /\ top.at = "entry"
  /\ cbor_typeof(top.item) = "STRING"
  /\ cbor_string_is_definite(top.item)
  /\ Return(cJSON_CreateString(string_copy(top.item)))
  /\ writes' = Stores(string_size(top.item),
                      0..cbor_string_length(top.item))
  /\ UNCHANGED MainVars

\* Line 56.
ArrayCreate ==
  /\ Running /\ top.at = "entry"
  /\ cbor_typeof(top.item) = "ARRAY"
  /\ stack' = SetTop([top EXCEPT !.at = "array_loop", !.i = 0,
                        !.result = cJSON_CreateArray])
  /\ writes' = {}
  /\ UNCHANGED <<ret, MainVars>>

\* Variant of line 57: the loop stops one child early.
array_more_short(it, i) == i + 1 < cbor_array_size(it)

\* Line 57: the loop test.
array_more(it, i) == i < cbor_array_size(it)

\* Lines 57-58: the loop test and the recursive call for child i.
ArrayCall ==
  /\ Running /\ top.at = "array_loop"
  /\ array_more(top.item, top.i)
  /\ Call("array_add", top, cbor_array_get(top.item, top.i))
  /\ writes' = {}
  /\ UNCHANGED MainVars

\* Line 58: the child's value is added, then i++.
ArrayAdd ==
  /\ Running /\ top.at = "array_add" /\ ret # None
  /\ stack' = SetTop([top EXCEPT !.at = "array_loop", !.i = @ + 1,
                        !.result = cJSON_AddItemToArray(@, ret)])
  /\ ret' = None
  /\ writes' = {}
  /\ UNCHANGED MainVars

\* Line 60.
ArrayReturn ==
  /\ Running /\ top.at = "array_loop"
  /\ ~array_more(top.item, top.i)
  /\ Return(top.result)
  /\ writes' = {}
  /\ UNCHANGED MainVars

\* Line 63.
MapCreate ==
  /\ Running /\ top.at = "entry"
  /\ cbor_typeof(top.item) = "MAP"
  /\ stack' = SetTop([top EXCEPT !.at = "map_loop", !.i = 0,
                        !.result = cJSON_CreateObject])
  /\ writes' = {}
  /\ UNCHANGED <<ret, MainVars>>

\* Lines 66-67: the key array and its default text.
surrogate_key(i) ==
  snprintf(calloc(KeySize), 0, KeySize, SurrogateKeyText \o fmt_zu(i))

\* Variant of lines 70-71: the limit taken one byte too low.
string_key_length_short(len) ==
  IF len >= KeySize - 1 THEN KeySize - 2 ELSE len

\* Variant of lines 70-71: > in place of >=.
string_key_length_gt(len) == IF len > KeySize THEN KeySize - 1 ELSE len

\* Lines 70-71.
string_key_length(len) == IF len >= KeySize THEN KeySize - 1 ELSE len

\* Variant of lines 69-75: line 74 left out.
string_key_unterminated(key, k) ==
  IF cbor_isa_string(k) /\ cbor_string_is_definite(k)
  THEN memcpy(key, cbor_string_handle(k),
              IF cbor_string_length(k) >= KeySize THEN KeySize - 1
              ELSE cbor_string_length(k))
  ELSE key

\* Lines 69-75: a definite text string replaces the default.
string_key(key, k) ==
  IF cbor_isa_string(k) /\ cbor_string_is_definite(k)
  THEN LET key_length == string_key_length(cbor_string_length(k))
       IN  [memcpy(key, cbor_string_handle(k), key_length)
              EXCEPT ![key_length] = NUL]
  ELSE key

\* Lines 76-79: an unsigned integer replaces whatever the key holds.
uint_key(key, k) ==
  IF cbor_isa_uint(k)
  THEN snprintf(key, 0, KeySize, fmt_llu(cbor_get_int(k)))
  ELSE key

map_key(it, i) ==
  uint_key(string_key(surrogate_key(i), cbor_map_handle(it)[i].key),
           cbor_map_handle(it)[i].key)

map_key_writes(it, i) ==
  LET k == cbor_map_handle(it)[i].key
  IN  snprintf_writes(0, KeySize, SurrogateKeyText \o fmt_zu(i))
      \cup (IF cbor_isa_string(k) /\ cbor_string_is_definite(k)
            THEN 0..string_key_length(cbor_string_length(k)) ELSE {})
      \cup (IF cbor_isa_uint(k)
            THEN snprintf_writes(0, KeySize, fmt_llu(cbor_get_int(k)))
            ELSE {})

\* Lines 64-79: the loop test and the key of pair i.
MapKey ==
  /\ Running /\ top.at = "map_loop"
  /\ top.i < cbor_map_size(top.item)
  /\ stack' = SetTop([top EXCEPT !.at = "map_call",
                        !.buf = map_key(top.item, top.i)])
  /\ writes' = Stores(KeySize, map_key_writes(top.item, top.i))
  /\ UNCHANGED <<ret, MainVars>>

\* Line 81: the value of pair i.
map_value(it, i) == cbor_map_handle(it)[i].value

\* Line 81: the recursive call for the value of pair i.
MapCall ==
  /\ Running /\ top.at = "map_call"
  /\ Call("map_add", top, map_value(top.item, top.i))
  /\ writes' = {}
  /\ UNCHANGED MainVars

\* Line 80: the value is added under the key, then i++.
MapAdd ==
  /\ Running /\ top.at = "map_add" /\ ret # None
  /\ stack' = SetTop([top EXCEPT !.at = "map_loop", !.i = @ + 1,
                        !.result = cJSON_AddItemToObject(@, top.buf, ret)])
  /\ ret' = None
  /\ writes' = {}
  /\ UNCHANGED MainVars

\* Line 83.
MapReturn ==
  /\ Running /\ top.at = "map_loop"
  /\ ~(top.i < cbor_map_size(top.item))
  /\ Return(top.result)
  /\ writes' = {}
  /\ UNCHANGED MainVars

\* Lines 86-89: the key array, then the recursive call for the child.
TagCall ==
  /\ Running /\ top.at = "entry"
  /\ cbor_typeof(top.item) = "TAG"
  /\ Call("tag_key", [top EXCEPT !.buf = calloc(KeySize)],
          cbor_tag_item(top.item))
  /\ writes' = {}
  /\ UNCHANGED MainVars

\* Line 91.
tag_key(key, val) == snprintf(key, 0, KeySize, TagKeyText \o fmt_llu(val))

\* Lines 91-94.
\* Variant of lines 91-93: the entry is added before the key is written.
tag_object_early(key, val, sub) ==
  cJSON_AddItemToObject(cJSON_CreateObject, key, sub)

\* Lines 91-93.
tag_object(key, val, sub) ==
  cJSON_AddItemToObject(cJSON_CreateObject, tag_key(key, val), sub)

TagKey ==
  /\ Running /\ top.at = "tag_key" /\ ret # None
  /\ Return(tag_object(top.buf, cbor_tag_value(top.item), ret))
  /\ writes' = Stores(KeySize,
                      snprintf_writes(0, KeySize,
                        TagKeyText \o fmt_llu(cbor_tag_value(top.item))))
  /\ UNCHANGED MainVars

cbor_to_cjson_step ==
  \/ ConvertDirect
  \/ BytestringAlloc \/ BytestringHex \/ BytestringReturn
  \/ StringDefinite
  \/ ArrayCreate \/ ArrayCall \/ ArrayAdd \/ ArrayReturn
  \/ MapCreate \/ MapKey \/ MapCall \/ MapAdd \/ MapReturn
  \/ TagCall \/ TagKey

-----------------------------------------------------------------------------
(* cbor_to_cjson as a function of the item: the value a call returns.      *)

RECURSIVE hex_loop(_, _, _)
hex_loop(buf, it, x) ==
  IF x < cbor_bytestring_length(it)
  THEN hex_loop(hex_step(buf, it, x), it, x + 1)
  ELSE buf

RECURSIVE cbor_to_cjson(_), array_loop(_, _, _), map_loop(_, _, _)

array_loop(result, it, i) ==
  IF array_more(it, i)
  THEN array_loop(
         cJSON_AddItemToArray(result, cbor_to_cjson(cbor_array_get(it, i))),
         it, i + 1)
  ELSE result

map_loop(result, it, i) ==
  IF i < cbor_map_size(it)
  THEN map_loop(
         cJSON_AddItemToObject(result, map_key(it, i),
                               cbor_to_cjson(map_value(it, i))),
         it, i + 1)
  ELSE result

cbor_to_cjson(it) ==
  CASE IsDirect(it) -> cbor_to_cjson_direct(it)
    [] cbor_typeof(it) = "BYTESTRING" /\ ~IsDirect(it) ->
         cJSON_CreateString(hex_loop(hex_start(it), it, 0))
    [] cbor_typeof(it) = "STRING" /\ ~IsDirect(it) ->
         cJSON_CreateString(string_copy(it))
    [] cbor_typeof(it) = "ARRAY" -> array_loop(cJSON_CreateArray, it, 0)
    [] cbor_typeof(it) = "MAP" -> map_loop(cJSON_CreateObject, it, 0)
    [] cbor_typeof(it) = "TAG" ->
         tag_object(calloc(KeySize), cbor_tag_value(it),
                    cbor_to_cjson(cbor_tag_item(it)))
    [] OTHER -> cbor_to_cjson_direct(it)

-----------------------------------------------------------------------------
(* main.                                                                   *)

NoItem == [type |-> "none"]

ConvVars == <<stack, ret, writes>>

\* exit(n) and return n from main: the process ends with status n mod 256.
Exit(n) ==
  /\ pc' = "exited"
  /\ exit_status' = <<n % 256>>

Init ==
  /\ pc = "start"
  /\ argc \in 1..3
  /\ file_ok \in BOOLEAN
  /\ length \in FileLengths
  /\ offset \in Offsets
  /\ load_error = FALSE
  /\ item = NoItem
  /\ stack = <<>>
  /\ ret = None
  /\ cjson_item = None
  /\ writes = {}
  /\ exit_status = <<>>
  /\ calls = {}

\* Line 114 and usage(): too few arguments.
MainUsage ==
  /\ pc = "start" /\ argc < 2
  /\ Exit(1)
  /\ UNCHANGED <<argc, file_ok, offset, length, load_error, item,
                 cjson_item, calls, ConvVars>>

\* Lines 115-116: `offset` holds argv[2] and takes effect when it is given.
MainOffset ==
  /\ pc = "start" /\ ~(argc < 2)
  /\ offset' = IF argc > 2 THEN offset ELSE 0
  /\ pc' = "fopen"
  /\ UNCHANGED <<argc, file_ok, length, load_error, item, cjson_item,
                 exit_status, calls, ConvVars>>

\* Lines 117-118: the file cannot be opened.
MainNoFile ==
  /\ pc = "fopen" /\ ~file_ok
  /\ Exit(1)
  /\ UNCHANGED <<argc, file_ok, offset, length, load_error, item,
                 cjson_item, calls, ConvVars>>

\* Lines 117-124: the file is read.
MainRead ==
  /\ pc = "fopen" /\ file_ok
  /\ pc' = "check_offset"
  /\ UNCHANGED <<argc, file_ok, offset, length, load_error, item,
                 cjson_item, exit_status, calls, ConvVars>>

\* Lines 126-131.
MainOffsetTooLarge ==
  /\ pc = "check_offset" /\ offset > length
  /\ Exit(-1)
  /\ UNCHANGED <<argc, file_ok, offset, length, load_error, item,
                 cjson_item, calls, ConvVars>>

\* cbor_load(source, source_size, &result): no data is an error; otherwise
\* the bytes decode to an item or they do not.
cbor_load(source_size) ==
  {[error |-> TRUE, item |-> NoItem]}
  \cup (IF source_size = 0 THEN {}
        ELSE {[error |-> FALSE, item |-> it] : it \in Items})

\* Lines 134-136.
MainLoad ==
  /\ pc = "check_offset" /\ ~(offset > length)
  /\ \E r \in cbor_load(length - offset) :
       /\ load_error' = r.error
       /\ item' = r.item
  /\ calls' = calls \cup {"cbor_load"}
  /\ pc' = "check_error"
  /\ UNCHANGED <<argc, file_ok, offset, length, cjson_item, exit_status,
                 ConvVars>>

\* Lines 138-144.
MainLoadError ==
  /\ pc = "check_error" /\ load_error
  /\ Exit(1)
  /\ UNCHANGED <<argc, file_ok, offset, length, load_error, item,
                 cjson_item, calls, ConvVars>>

\* Variant of line 146: the test of line 138 left out.
MainConvert_unchecked ==
  /\ pc = "check_error"
  /\ pc' = "convert"
  /\ stack' = <<Frame(item)>>
  /\ ret' = None
  /\ calls' = calls \cup {"cbor_to_cjson"}
  /\ UNCHANGED <<argc, file_ok, offset, length, load_error, item,
                 cjson_item, exit_status, writes>>

\* Line 146: the call of the converter.
MainConvert ==
  /\ pc = "check_error" /\ ~load_error
  /\ pc' = "convert"
  /\ stack' = <<Frame(item)>>
  /\ ret' = None
  /\ calls' = calls \cup {"cbor_to_cjson"}
  /\ UNCHANGED <<argc, file_ok, offset, length, load_error, item,
                 cjson_item, exit_status, writes>>

\* Line 146: the converter's value is stored.
MainConverted ==
  /\ pc = "convert" /\ stack = <<>> /\ ret # None
  /\ cjson_item' = ret
  /\ ret' = None
  /\ pc' = "print"
  /\ UNCHANGED <<argc, file_ok, offset, length, load_error, item,
                 exit_status, calls, stack, writes>>

\* Lines 147-150.
MainPrint ==
  /\ pc = "print"
  /\ calls' = calls \cup {"cJSON_Print"}
  /\ pc' = "cleanup"
  /\ UNCHANGED <<argc, file_ok, offset, length, load_error, item,
                 cjson_item, exit_status, ConvVars>>

\* Lines 153-155: the end of main is reached, the status is 0.
MainReturn ==
  /\ pc = "cleanup"
  /\ Exit(0)
  /\ UNCHANGED <<argc, file_ok, offset, length, load_error, item,
                 cjson_item, calls, ConvVars>>

main ==
  \/ MainUsage \/ MainOffset \/ MainNoFile \/ MainRead
  \/ MainOffsetTooLarge \/ MainLoad \/ MainLoadError
  \/ MainConvert \/ MainConverted \/ MainPrint \/ MainReturn

Next == main \/ cbor_to_cjson_step

Spec == Init /\ [][Next]_vars

\* The process is scheduled until it exits.
FairSpec == Spec /\ WF_vars(Next)

-----------------------------------------------------------------------------
(* What the properties speak about.                                        *)

\* main holds the converter's value.
Converted == pc \in {"print", "cleanup", "exited"} /\ cjson_item # None

\* The item whose conversion the caller f is waiting for.
Callee(f) ==
  CASE f.at = "array_add" -> f.item.data[f.i + 1]
    [] f.at = "map_add" -> f.item.data[f.i + 1].value
    [] f.at = "tag_key" -> f.item.item

\* The calls of cbor_to_cjson that have just returned: the item given and
\* the value returned, for the outermost call and for every nested one.
Returned ==
  (IF Converted THEN {[item |-> item, value |-> cjson_item]} ELSE {})
  \cup (IF pc = "convert" /\ ret # None
        THEN IF stack = <<>> THEN {[item |-> item, value |-> ret]}
             ELSE {[item |-> Callee(top), value |-> ret]}
        ELSE {})

\* Decimal numerals of the integers that occur in the explored inputs.
DecimalText(u) ==
  CASE u = <<0, 0, 0, 0>> -> <<"0">>
    [] u = <<1, 0, 0, 0>> -> <<"1">>
    [] u = <<2, 0, 0, 0>> -> <<"2">>
    [] u = <<3, 0, 0, 0>> -> <<"3">>
    [] u = <<5, 0, 0, 0>> -> <<"5">>
    [] u = <<7, 0, 0, 0>> -> <<"7">>
    [] u = <<10, 0, 0, 0>> -> <<"1", "0">>
    [] u = <<0, 0, 1, 0>> ->
         <<"4", "2", "9", "4", "9", "6", "7", "2", "9", "6">>
    [] u = <<1, 0, 0, 32>> ->
         <<"9", "0", "0", "7", "1", "9", "9", "2", "5", "4", "7", "4", "0",
           "9", "9", "3">>
    [] u = <<65535, 65535, 65535, 65535>> ->
         <<"1", "8", "4", "4", "6", "7", "4", "4", "0", "7", "3", "7", "0",
           "9", "5", "5", "1", "6", "1", "5">>

\* The first n bytes of a byte sequence (all of it when it is shorter).
FirstBytes(d, n) == SubSeq(d, 1, Min(Len(d), n))

\* A byte sequence up to its first NUL byte.
UpToNul(d) ==
  IF \E k \in 1..Len(d) : d[k] = NUL
  THEN SubSeq(d, 1, (CHOOSE k \in 1..Len(d) :
                       d[k] = NUL /\ \A j \in 1..(k - 1) : d[j] # NUL) - 1)
  ELSE d

IsUint(it) == it.type = "UINT"
IsDefiniteText(it) == it.type = "STRING" /\ it.definite
IsDefiniteBytes(it) == it.type = "BYTESTRING" /\ it.definite

JString(t) == [type |-> "String", valuestring |-> t]

-----------------------------------------------------------------------------
(* C1.                                                                     *)

\* The double nearest to -1 - m: the magnitude m + 1 is exact when it is
\* 2^64 and is rounded like any 64-bit magnitude otherwise.
MinusOneMinus(m) ==
  LET p == Mag5Add(<<m[1], m[2], m[3], m[4], 0>>, 1)
  IN  [cls |-> "finite", neg |-> TRUE,
       int |-> IF p[5] = 1 THEN p
               ELSE U64RoundToDouble(<<p[1], p[2], p[3], p[4]>>),
       tenths |-> 0]

\* C1: every negative integer of magnitude m converts to the JSON number
\* -1 - m, a negative value.
C1_NegintIsMinusOneMinusM ==
  \A r \in Returned :
    r.item.type = "NEGINT" =>
      /\ r.value = [type |-> "Number",
                    valuedouble |-> MinusOneMinus(r.item.value)]
      /\ r.value.valuedouble.neg

-----------------------------------------------------------------------------
(* C2.                                                                     *)

RECURSIVE HexPairs(_)
HexPairs(d) ==
  IF d = <<>> THEN <<>>
  ELSE <<HexDigit[(Head(d) \div 16) + 1], HexDigit[(Head(d) % 16) + 1]>>
       \o HexPairs(Tail(d))

\* C2: a definite byte string of n bytes converts to the JSON string of
\* 1 + 2n characters made of 'b' and the two uppercase hexadecimal digits of
\* every byte in order, the last byte included.
C2_HexOfEveryByte ==
  \A r \in Returned :
    IsDefiniteBytes(r.item) =>
      /\ r.value = JString(<<"b">> \o HexPairs(r.item.data))
      /\ Len(r.value.valuestring) = 1 + 2 * Len(r.item.data)

-----------------------------------------------------------------------------
(* C3, C4, C5: the keys and entries of the object made from a map.         *)

SurrogateText(i) ==
  <<"S", "u", "r", "r", "o", "g", "a", "t", "e", " ", "k", "e", "y", " ">>
  \o DecimalText(<<i, 0, 0, 0>>)

\* The key that a definite text string gives: its first 127 bytes, read as
\* a C string.
TextKey(d) == UpToNul(FirstBytes(d, KeySize - 1))

\* The key of pair i (zero-based) by the kind of its key item.
KeyByKind(k, i) ==
  IF IsUint(k) THEN DecimalText(k.value)
  ELSE IF IsDefiniteText(k) THEN TextKey(k.data)
  ELSE SurrogateText(i)

\* The objects under construction or returned, each with its map.
Objects ==
  {[item |-> r.item, object |-> r.value] : r \in {q \in Returned :
                                                    q.item.type = "MAP"}}
  \cup {[item |-> stack[n].item, object |-> stack[n].result] :
          n \in {m \in 1..Len(stack) : /\ stack[m].item.type = "MAP"
                                       /\ stack[m].result # None}}

PairsWithKey(m, k) ==
  {j \in 1..Len(m.data) : KeyByKind(m.data[j].key, j - 1) = k}

Last(S) == CHOOSE j \in S : \A h \in S : h <= j

C5_FirstBytes ==
  \A o \in Objects :
    \A j \in 1..Len(o.object.child) :
      IsDefiniteText(o.item.data[j].key) =>
        o.object.child[j].string =
          FirstBytes(o.item.data[j].key.data, KeySize - 1)

\* C5 amended: a definite text string key of length L comes out as its
\* first min(L, 127) bytes, ended before the first NUL byte among them when
\* there is one.
C5_FirstBytesAsCString ==
  \A o \in Objects :
    \A j \in 1..Len(o.object.child) :
      IsDefiniteText(o.item.data[j].key) =>
        o.object.child[j].string =
          UpToNul(FirstBytes(o.item.data[j].key.data, KeySize - 1))

C5_Witness ==
  \E r \in Returned :
    /\ r.item.type = "MAP" /\ Len(r.item.data) = 2
    /\ IsDefiniteText(r.item.data[1].key)
    /\ IsDefiniteText(r.item.data[2].key)
    /\ Len(r.item.data[1].key.data) >= KeySize
    /\ Len(r.item.data[2].key.data) = KeySize - 1
    /\ Len(r.value.child[1].string) = KeySize - 1
    /\ r.value.child[2].string = r.item.data[2].key.data

-----------------------------------------------------------------------------
(* C6.                                                                     *)

RECURSIVE IsJSON(_)
IsJSON(v) ==
  CASE v.type \in {"True", "False", "NULL"} -> TRUE
    [] v.type = "Number" -> v.valuedouble.cls \in {"finite", "nan", "inf"}
    [] v.type = "String" -> \A k \in 1..Len(v.valuestring) :
                              v.valuestring[k] # NUL
    [] v.type = "Array" -> \A k \in 1..Len(v.child) : IsJSON(v.child[k])
    [] v.type = "Object" -> \A k \in 1..Len(v.child) : IsJSON(v.child[k].item)
    [] OTHER -> FALSE

ChunkedBytes(it) == it.type = "BYTESTRING" /\ ~it.definite
ChunkedText(it) == it.type = "STRING" /\ ~it.definite
OtherControl(it) ==
  it.type = "FLOAT_CTRL" /\ it.ctrl /\ it.simple \notin {20, 21, 22}

\* Every unsupported item of the tree it stands at the place of its
\* placeholder in the value v.
RECURSIVE PlaceholdersKept(_, _)
PlaceholdersKept(it, v) ==
  CASE ChunkedBytes(it) -> v = JString(
      <<"U", "n", "s", "u", "p", "p", "o", "r", "t", "e", "d", " ", "C",
        "B", "O", "R", " ", "i", "t", "e", "m", ":", " ", "C", "h", "u",
        "n", "k", "e", "d", " ", "B", "y", "t", "e", "s", "t", "r", "i",
        "n", "g">>)
    [] ChunkedText(it) -> v = JString(
      <<"U", "n", "s", "u", "p", "p", "o", "r", "t", "e", "d", " ", "C",
        "B", "O", "R", " ", "i", "t", "e", "m", ":", " ", "C", "h", "u",
        "n", "k", "e", "d", " ", "s", "t", "r", "i", "n", "g">>)
    [] OtherControl(it) -> v = JString(
      <<"U", "n", "s", "u", "p", "p", "o", "r", "t", "e", "d", " ", "C",
        "B", "O", "R", " ", "i", "t", "e", "m", ":", " ", "C", "o", "n",
        "t", "r", "o", "l", " ", "v", "a", "l", "u", "e">>)
    [] it.type = "ARRAY" ->
         /\ v.type = "Array" /\ Len(v.child) = Len(it.data)
         /\ \A k \in 1..Len(it.data) : PlaceholdersKept(it.data[k], v.child[k])
    [] it.type = "MAP" ->
         /\ v.type = "Object" /\ Len(v.child) = Len(it.data)
         /\ \A k \in 1..Len(it.data) :
              PlaceholdersKept(it.data[k].value, v.child[k].item)
    [] it.type = "TAG" ->
         /\ v.type = "Object" /\ Len(v.child) = 1
         /\ PlaceholdersKept(it.item, v.child[1].item)
    [] OTHER -> TRUE

\* C6: every started conversion ends, and it ends with one JSON value, in
\* which each chunked byte string, chunked text string and other control
\* value of the tree, at any depth, has become its placeholder string.
C6_Total ==
  /\ [](\A r \in Returned :
          IsJSON(r.value) /\ PlaceholdersKept(r.item, r.value))
  /\ ((pc = "convert") ~> Converted)

C6_Witness ==
  /\ Converted
  /\ item.type = "ARRAY" /\ Len(item.data) = 2
  /\ ChunkedBytes(item.data[1])
  /\ item.data[2].type = "TAG" /\ OtherControl(item.data[2].item)
  /\ cjson_item.child[1] = JString(
      <<"U", "n", "s", "u", "p", "p", "o", "r", "t", "e", "d", " ", "C",
        "B", "O", "R", " ", "i", "t", "e", "m", ":", " ", "C", "h", "u",
        "n", "k", "e", "d", " ", "B", "y", "t", "e", "s", "t", "r", "i",
        "n", "g">>)
  /\ cjson_item.child[2].child[1].item = JString(
      <<"U", "n", "s", "u", "p", "p", "o", "r", "t", "e", "d", " ", "C",
        "B", "O", "R", " ", "i", "t", "e", "m", ":", " ", "C", "o", "n",
        "t", "r", "o", "l", " ", "v", "a", "l", "u", "e">>)

-----------------------------------------------------------------------------
(* C7.                                                                     *)

\* C7: an array of n children converts to a JSON array of n elements, the
\* element at index i being the conversion of the child at index i.
C7_ArrayOrder ==
  \A r \in Returned :
    r.item.type = "ARRAY" =>
      /\ r.value.type = "Array"
      /\ Len(r.value.child) = Len(r.item.data)
      /\ \A j \in 1..Len(r.item.data) :
           r.value.child[j] = cbor_to_cjson(r.item.data[j])

C7_Witness ==
  \E r \in Returned :
    /\ r.item.type = "ARRAY" /\ Len(r.item.data) >= 2
    /\ r.item.data[1] # r.item.data[2]
    /\ Len(r.value.child) = Len(r.item.data)
    /\ r.value.child[1] # r.value.child[2]

-----------------------------------------------------------------------------
(* C8.                                                                     *)

\* C8: a tag numbered t on a child c converts to a JSON object with exactly
\* one entry, its key "tag_" followed by the decimal numeral of t and its
\* value the conversion of c.
C8_TagObject ==
  \A r \in Returned :
    r.item.type = "TAG" =>
      /\ r.value.type = "Object"
      /\ Len(r.value.child) = 1
      /\ r.value.child[1].string =
           <<"t", "a", "g", "_">> \o DecimalText(r.item.tag)
      /\ r.value.child[1].item = cbor_to_cjson(r.item.item)

C8_Witness ==
  \E r \in Returned :
    /\ r.item.type = "TAG"
    /\ r.item.tag = <<65535, 65535, 65535, 65535>>
    /\ r.value.child[1].string = 
      <<"t", "a", "g", "_", "1", "8", "4", "4", "6", "7", "4", "4", "0",
        "7", "3", "7", "0", "9", "5", "5", "1", "6", "1", "5">>
    /\ r.value.child[1].item = JString(
      <<"U", "n", "s", "u", "p", "p", "o", "r", "t", "e", "d", " ", "C",
        "B", "O", "R", " ", "i", "t", "e", "m", ":", " ", "C", "h", "u",
        "n", "k", "e", "d", " ", "B", "y", "t", "e", "s", "t", "r", "i",
        "n", "g">>)

-----------------------------------------------------------------------------
(* C9.                                                                     *)

\* C9: the converter and the printer are called only after a successful
\* decode, and a run whose file cannot be opened, whose offset is larger
\* than the file or whose decode fails ends with a non-zero status without
\* having called either.
C9_ConvertOnlyAfterSuccess ==
  /\ "cbor_to_cjson" \in calls =>
       /\ "cbor_load" \in calls /\ ~load_error /\ item # NoItem
       /\ argc >= 2 /\ file_ok /\ ~(offset > length)
  /\ "cJSON_Print" \in calls => "cbor_to_cjson" \in calls /\ cjson_item # None
  /\ (pc = "exited" /\ (load_error \/ ~file_ok \/ offset > length)) =>
       /\ exit_status # <<0>>
       /\ "cbor_to_cjson" \notin calls
       /\ "cJSON_Print" \notin calls

C9_Witness ==
  /\ pc = "exited" /\ load_error
  /\ exit_status = <<1>>
  /\ calls = {"cbor_load"}

-----------------------------------------------------------------------------
(* C10.                                                                    *)

\* C10: every byte stored into a temporary buffer is stored at an index
\* inside the buffer, every buffer that holds text holds a NUL, and no key
\* is longer than 127 bytes.
C10_WritesInBounds ==
  /\ \A w \in writes : 0 <= w.index /\ w.index < w.size
  /\ \A n \in 1..Len(stack) :
       DOMAIN stack[n].buf # {} =>
         \E k \in DOMAIN stack[n].buf : stack[n].buf[k] = NUL
  /\ \A r \in Returned :
       r.item.type \in {"MAP", "TAG"} =>
         \A j \in 1..Len(r.value.child) :
           Len(r.value.child[j].string) <= KeySize - 1

C10_Witness ==
  /\ pc = "convert" /\ stack # <<>>
  /\ top.at = "map_call"
  /\ IsDefiniteText(top.item.data[top.i + 1].key)
  /\ Len(top.item.data[top.i + 1].key.data) > KeySize
  /\ [size |-> KeySize, index |-> KeySize - 1] \in writes
  /\ top.buf[KeySize - 1] = NUL
  /\ top.buf[KeySize - 2] # NUL

====
